---- MODULE Spec2Model ----
(***************************************************************************)
(* catj-rss: a streaming, table-driven JSON flattener.                     *)
(*                                                                         *)
(* The model follows src/src/main.rs byte for byte: parse() reads one byte *)
(* at a time, parse_ch() drives the pushdown automaton, do_action() runs   *)
(* the semantic actions, print_path() and Terminal::fmt() render the       *)
(* output.  Bytes, code points, states and categories are numbers; byte    *)
(* strings and the output are sequences of numbers.                        *)
(*                                                                         *)
(* The tables module (STATES, GOTOS, CATCODE; `mod tables` in main.rs) is  *)
(* not part of the sources at hand.  It is written here from the grammar   *)
(* the specification describes, in the encoding parse_ch() decodes.        *)
(***************************************************************************)
EXTENDS Integers, Sequences, FiniteSets, TLC

(***************************************************************************)
(* Generic helpers.                                                        *)
(***************************************************************************)
Last(s) == s[Len(s)]

Front(s) == SubSeq(s, 1, Len(s) - 1)

RECURSIVE Flat(_)
Flat(ss) == IF ss = <<>> THEN <<>> ELSE Head(ss) \o Flat(Tail(ss))

(***************************************************************************)
(* Lexical categories (tables.rs, CATCODE).                                *)
(***************************************************************************)
CT_CTL == 0
CT_WS == 1
CT_QUOTE == 2
CT_COMMA == 3
CT_COLON == 4
CT_LBRACK == 5
CT_RBRACK == 6
CT_LBRACE == 7
CT_RBRACE == 8
CT_BSLASH == 9
CT_SLASH == 10
CT_MINUS == 11
CT_PLUS == 12
CT_DOT == 13
CT_ZERO == 14
CT_DIGIT == 15
CT_LOW_A == 16
CT_LOW_E == 17
CT_LOW_F == 18
CT_LOW_L == 19
CT_LOW_N == 20
CT_LOW_R == 21
CT_LOW_S == 22
CT_LOW_T == 23
CT_LOW_U == 24
CT_UP_E == 25
CT_OTHER == 26

NCATS == 27

\* The category of byte i, 0 <= i <= 0x7e.
CatOf(i) ==
    CASE i \in {9, 10, 13, 32} -> CT_WS
      [] i < 32 -> CT_CTL
      [] i = 34 -> CT_QUOTE
      [] i = 44 -> CT_COMMA
      [] i = 58 -> CT_COLON
      [] i = 91 -> CT_LBRACK
      [] i = 93 -> CT_RBRACK
      [] i = 123 -> CT_LBRACE
      [] i = 125 -> CT_RBRACE
      [] i = 92 -> CT_BSLASH
      [] i = 47 -> CT_SLASH
      [] i = 45 -> CT_MINUS
      [] i = 43 -> CT_PLUS
      [] i = 46 -> CT_DOT
      [] i = 48 -> CT_ZERO
      [] i \in 49..57 -> CT_DIGIT
      [] i = 97 -> CT_LOW_A
      [] i = 101 -> CT_LOW_E
      [] i = 102 -> CT_LOW_F
      [] i = 108 -> CT_LOW_L
      [] i = 110 -> CT_LOW_N
      [] i = 114 -> CT_LOW_R
      [] i = 115 -> CT_LOW_S
      [] i = 116 -> CT_LOW_T
      [] i = 117 -> CT_LOW_U
      [] i = 69 -> CT_UP_E
      [] OTHER -> CT_OTHER

CATCODE == [i \in 0..126 |-> CatOf(i)]

(***************************************************************************)
(* Automaton states (tables.rs, STATES).  State 0 is the initial state:    *)
(* a top-level value, or the end of the input, is expected.                *)
(***************************************************************************)
S_TOP == 0
S_DONE == 1
S_LIST0 == 2
S_LISTAFTER == 3
S_LISTVAL == 4
S_OBJ0 == 5
S_OBJCOLON == 6
S_OBJVAL == 7
S_OBJAFTER == 8
S_OBJKEY == 9
S_STR == 10
S_ESC == 11
S_U1 == 12
S_U2 == 13
S_U3 == 14
S_U4 == 15
S_U5 == 16
S_MINUS == 17
S_ZERO == 18
S_INT == 19
S_FRAC0 == 20
S_FRAC == 21
S_EXP0 == 22
S_EXP1 == 23
S_EXP == 24
S_T1 == 25
S_T2 == 26
S_T3 == 27
S_F1 == 28
S_F2 == 29
S_F3 == 30
S_F4 == 31
S_N1 == 32
S_N2 == 33
S_N3 == 34

NSTATES == 35

\* Table entries: action in the high byte (bit 7 of it: push the goto
\* state), next state in the low byte; low byte 0xFF: return; 0xFFFF: error.
Go(action, next) == action * 256 + next

Shift(action, next) == (128 + action) * 256 + next

Ret(action) == action * 256 + 255

ShiftRet(action) == (128 + action) * 256 + 255

ERR == 65535

\* The first byte of a value, in a state that expects a value.
ValueStart(c) ==
    CASE c = CT_QUOTE -> Shift(0, S_STR)
      [] c = CT_LBRACK -> Shift(1, S_LIST0)
      [] c = CT_LBRACE -> Shift(2, S_OBJ0)
      [] c = CT_MINUS -> Shift(11, S_MINUS)
      [] c = CT_ZERO -> Shift(11, S_ZERO)
      [] c = CT_DIGIT -> Shift(11, S_INT)
      [] c = CT_LOW_T -> Shift(0, S_T1)
      [] c = CT_LOW_F -> Shift(0, S_F1)
      [] c = CT_LOW_N -> Shift(0, S_N1)
      [] OTHER -> ERR

IsDigitCat(c) == c \in {CT_ZERO, CT_DIGIT}

Transition(s, c) ==
    CASE s = S_TOP ->
           IF c = CT_WS THEN Go(0, S_TOP) ELSE ValueStart(c)
      [] s = S_DONE -> Ret(0)
      [] s = S_LIST0 ->
           IF c = CT_WS THEN Go(0, S_LIST0)
           ELSE IF c = CT_RBRACK THEN Go(0, S_DONE)
           ELSE ValueStart(c)
      [] s = S_LISTAFTER ->
           IF c = CT_WS THEN Go(0, S_LISTAFTER)
           ELSE IF c = CT_COMMA THEN Go(3, S_LISTVAL)
           ELSE IF c = CT_RBRACK THEN Go(3, S_DONE)
           ELSE ERR
      [] s = S_LISTVAL ->
           IF c = CT_WS THEN Go(0, S_LISTVAL) ELSE ValueStart(c)
      [] s = S_OBJ0 ->
           IF c = CT_WS THEN Go(0, S_OBJ0)
           ELSE IF c = CT_RBRACE THEN Go(0, S_DONE)
           ELSE IF c = CT_QUOTE THEN Shift(0, S_STR)
           ELSE ERR
      [] s = S_OBJCOLON ->
           IF c = CT_WS THEN Go(0, S_OBJCOLON)
           ELSE IF c = CT_COLON THEN Go(0, S_OBJVAL)
           ELSE ERR
      [] s = S_OBJVAL ->
           IF c = CT_WS THEN Go(0, S_OBJVAL) ELSE ValueStart(c)
      [] s = S_OBJAFTER ->
           IF c = CT_WS THEN Go(0, S_OBJAFTER)
           ELSE IF c = CT_COMMA THEN Go(4, S_OBJKEY)
           ELSE IF c = CT_RBRACE THEN Go(4, S_DONE)
           ELSE ERR
      [] s = S_OBJKEY ->
           IF c = CT_WS THEN Go(0, S_OBJKEY)
           ELSE IF c = CT_QUOTE THEN Shift(0, S_STR)
           ELSE ERR
      [] s = S_STR ->
           IF c = CT_CTL THEN ERR
           ELSE IF c = CT_QUOTE THEN Go(8, S_DONE)
           ELSE IF c = CT_BSLASH THEN Go(0, S_ESC)
           ELSE Go(11, S_STR)
      [] s = S_ESC ->
           IF c = CT_CTL THEN ERR
           ELSE IF c \in {CT_QUOTE, CT_BSLASH, CT_SLASH} THEN Go(11, S_STR)
           ELSE IF c = CT_LOW_U THEN Go(0, S_U1)
           ELSE Go(13, S_STR)
      [] s = S_U1 -> IF c = CT_CTL THEN ERR ELSE Go(12, S_U2)
      [] s = S_U2 -> IF c = CT_CTL THEN ERR ELSE Go(12, S_U3)
      [] s = S_U3 -> IF c = CT_CTL THEN ERR ELSE Go(12, S_U4)
      [] s = S_U4 -> IF c = CT_CTL THEN ERR ELSE ShiftRet(12)
      [] s = S_U5 -> IF c = CT_CTL THEN ERR ELSE Go(14, S_STR)
      [] s = S_MINUS ->
           IF c = CT_ZERO THEN Go(11, S_ZERO)
           ELSE IF c = CT_DIGIT THEN Go(11, S_INT)
           ELSE ERR
      [] s = S_ZERO ->
           IF c = CT_CTL THEN ERR
           ELSE IF c = CT_DOT THEN Go(11, S_FRAC0)
           ELSE IF c \in {CT_LOW_E, CT_UP_E} THEN Go(11, S_EXP0)
           ELSE Ret(9)
      [] s = S_INT ->
           IF c = CT_CTL THEN ERR
           ELSE IF IsDigitCat(c) THEN Go(11, S_INT)
           ELSE IF c = CT_DOT THEN Go(11, S_FRAC0)
           ELSE IF c \in {CT_LOW_E, CT_UP_E} THEN Go(11, S_EXP0)
           ELSE Ret(9)
      [] s = S_FRAC0 -> IF IsDigitCat(c) THEN Go(11, S_FRAC) ELSE ERR
      [] s = S_FRAC ->
           IF c = CT_CTL THEN ERR
           ELSE IF IsDigitCat(c) THEN Go(11, S_FRAC)
           ELSE IF c \in {CT_LOW_E, CT_UP_E} THEN Go(11, S_EXP0)
           ELSE Ret(10)
      [] s = S_EXP0 ->
           IF c \in {CT_PLUS, CT_MINUS} THEN Go(11, S_EXP1)
           ELSE IF IsDigitCat(c) THEN Go(11, S_EXP)
           ELSE ERR
      [] s = S_EXP1 -> IF IsDigitCat(c) THEN Go(11, S_EXP) ELSE ERR
      [] s = S_EXP ->
           IF c = CT_CTL THEN ERR
           ELSE IF IsDigitCat(c) THEN Go(11, S_EXP)
           ELSE Ret(10)
      [] s = S_T1 -> IF c = CT_LOW_R THEN Go(0, S_T2) ELSE ERR
      [] s = S_T2 -> IF c = CT_LOW_U THEN Go(0, S_T3) ELSE ERR
      [] s = S_T3 -> IF c = CT_LOW_E THEN Go(6, S_DONE) ELSE ERR
      [] s = S_F1 -> IF c = CT_LOW_A THEN Go(0, S_F2) ELSE ERR
      [] s = S_F2 -> IF c = CT_LOW_L THEN Go(0, S_F3) ELSE ERR
      [] s = S_F3 -> IF c = CT_LOW_S THEN Go(0, S_F4) ELSE ERR
      [] s = S_F4 -> IF c = CT_LOW_E THEN Go(7, S_DONE) ELSE ERR
      [] s = S_N1 -> IF c = CT_LOW_U THEN Go(0, S_N2) ELSE ERR
      [] s = S_N2 -> IF c = CT_LOW_L THEN Go(0, S_N3) ELSE ERR
      [] s = S_N3 -> IF c = CT_LOW_L THEN Go(5, S_DONE) ELSE ERR
      [] OTHER -> ERR

STATES == [s \in 0..(NSTATES - 1) |-> [c \in 0..(NCATS - 1) |-> Transition(s, c)]]

\* The state to come back to once the construct entered from s is complete.
GotoOf(s) ==
    CASE s = S_TOP -> S_TOP
      [] s = S_LIST0 -> S_LISTAFTER
      [] s = S_LISTVAL -> S_LISTAFTER
      [] s = S_OBJ0 -> S_OBJCOLON
      [] s = S_OBJKEY -> S_OBJCOLON
      [] s = S_OBJVAL -> S_OBJAFTER
      [] s = S_U4 -> S_U5
      [] OTHER -> S_TOP

GOTOS == [s \in 0..(NSTATES - 1) |-> GotoOf(s)]

(***************************************************************************)
(* The value stack's entries (enum Value, enum Terminal).                  *)
(* One record shape for every variant: t is the variant, empty the flag of *)
(* an Object, index the size of a List, b the value of a Bool, s the text  *)
(* of a Number (bytes) or the characters of a String (code points).        *)
(***************************************************************************)
Value(t, empty, index, b, s) == [t |-> t, empty |-> empty, index |-> index, b |-> b, s |-> s]

Object(empty) == Value("Object", empty, 0, FALSE, <<>>)

List(index) == Value("List", FALSE, index, FALSE, <<>>)

TNull == Value("Null", FALSE, 0, FALSE, <<>>)

TBool(b) == Value("Bool", FALSE, 0, b, <<>>)

TNumber(s) == Value("Number", FALSE, 0, FALSE, s)

TString(s) == Value("String", FALSE, 0, FALSE, s)

IsTerminal(v) == v.t \in {"Null", "Bool", "Number", "String"}

(***************************************************************************)
(* UTF-8: String::from_utf8 (validation and decoding) and                  *)
(* char::encode_utf8.                                                      *)
(***************************************************************************)
IsCont(b) == b \in 128..191

\* The bytes of code point c.
EncodeUtf8(c) ==
    IF c < 128 THEN <<c>>
    ELSE IF c < 2048 THEN <<192 + (c \div 64), 128 + (c % 64)>>
    ELSE IF c < 65536
         THEN <<224 + (c \div 4096), 128 + ((c \div 64) % 64), 128 + (c % 64)>>
    ELSE <<240 + (c \div 262144), 128 + ((c \div 4096) % 64),
           128 + ((c \div 64) % 64), 128 + (c % 64)>>

\* The code points of a byte string, or <<-1>> when it is not valid UTF-8.
RECURSIVE DecodeUtf8(_)
DecodeUtf8(bs) ==
    IF bs = <<>> THEN <<>>
    ELSE LET b0 == bs[1]
             n == Len(bs)
             width == IF b0 < 128 THEN 1
                      ELSE IF b0 \in 194..223 THEN 2
                      ELSE IF b0 \in 224..239 THEN 3
                      ELSE IF b0 \in 240..244 THEN 4
                      ELSE 0
             ok == /\ width > 0
                   /\ n >= width
                   /\ \A k \in 2..width : IsCont(bs[k])
                   /\ (b0 = 224) => bs[2] >= 160
                   /\ (b0 = 237) => bs[2] <= 159
                   /\ (b0 = 240) => bs[2] >= 144
                   /\ (b0 = 244) => bs[2] <= 143
             cp == IF width = 1 THEN b0
                   ELSE IF width = 2 THEN (b0 - 192) * 64 + (bs[2] - 128)
                   ELSE IF width = 3
                        THEN (b0 - 224) * 4096 + (bs[2] - 128) * 64 + (bs[3] - 128)
                   ELSE (b0 - 240) * 262144 + (bs[2] - 128) * 4096
                        + (bs[3] - 128) * 64 + (bs[4] - 128)
         IN IF ~ok THEN <<-1>>
            ELSE LET rest == DecodeUtf8(SubSeq(bs, width + 1, n))
                 IN IF rest # <<>> /\ rest[1] = -1 THEN <<-1>> ELSE <<cp>> \o rest

IsValidUtf8(bs) == LET cs == DecodeUtf8(bs) IN cs = <<>> \/ cs[1] # -1

(***************************************************************************)
(* Number and character formatting.                                        *)
(***************************************************************************)
\* Decimal digits of n, as `{index}` prints a u64.
RECURSIVE Dec(_)
Dec(n) == IF n < 10 THEN <<48 + n>> ELSE Dec(n \div 10) \o <<48 + (n % 10)>>

LowerHexDigit(d) == IF d < 10 THEN 48 + d ELSE 87 + d

\* `{:04x}` of a number below 0x10000.
Hex4(n) == <<LowerHexDigit((n \div 4096) % 16), LowerHexDigit((n \div 256) % 16),
             LowerHexDigit((n \div 16) % 16), LowerHexDigit(n % 16)>>

\* FmtChar with the characters above U+FFFF written as the escapes of their
\* surrogate pair (the arm that Terminal::fmt holds in a comment).
FmtCharEscapedPairs(c) ==
    CASE c = 34 -> <<92, 34>>
      [] c = 92 -> <<92, 92>>
      [] c = 8 -> <<92, 98>>
      [] c = 9 -> <<92, 116>>
      [] c = 12 -> <<92, 102>>
      [] c = 10 -> <<92, 110>>
      [] c = 13 -> <<92, 114>>
      [] OTHER -> IF c < 32 THEN <<92, 117>> \o Hex4(c)
                  ELSE IF c > 65535
                  THEN <<92, 117>> \o Hex4(55296 + ((c - 65536) \div 1024))
                       \o <<92, 117>> \o Hex4(56320 + ((c - 65536) % 1024))
                  ELSE EncodeUtf8(c)

\* One character of a string, as Terminal::fmt writes it.
FmtChar(c) ==
    CASE c = 34 -> <<92, 34>>
      [] c = 92 -> <<92, 92>>
      [] c = 8 -> <<92, 98>>
      [] c = 9 -> <<92, 116>>
      [] c = 12 -> <<92, 102>>
      [] c = 10 -> <<92, 110>>
      [] c = 13 -> <<92, 114>>
      [] OTHER -> IF c < 32 THEN <<92, 117>> \o Hex4(c) ELSE EncodeUtf8(c)

\* impl Display for Terminal.
FmtTerminal(v) ==
    CASE v.t = "Null" -> <<110, 117, 108, 108>>
      [] v.t = "Bool" -> IF v.b THEN <<116, 114, 117, 101>>
                         ELSE <<102, 97, 108, 115, 101>>
      [] v.t = "Number" -> v.s
      [] OTHER -> <<34>> \o Flat([i \in 1..Len(v.s) |-> FmtChar(v.s[i])]) \o <<34>>

IsAsciiAlnum(c) == c \in 48..57 \/ c \in 65..90 \/ c \in 97..122

\* IsBareKey without the underscore.
IsBareKeyNoUnderscore(s) == \A i \in 1..Len(s) : IsAsciiAlnum(s[i])

IsBareKey(s) == \A i \in 1..Len(s) : IsAsciiAlnum(s[i]) \/ s[i] = 95

\* PathItem with the index of a list taken after its increment.
PathItemNextIndex(item) ==
    CASE item.t = "Object" -> <<46>>
      [] item.t = "List" -> <<91>> \o Dec(item.index + 1) \o <<93>>
      [] item.t = "String" -> IF IsBareKey(item.s)
                              THEN Flat([i \in 1..Len(item.s) |-> EncodeUtf8(item.s[i])])
                              ELSE FmtTerminal(item)
      [] OTHER -> <<-1>>

\* One component of a path; <<-1>> where print_path panics.
PathItem(item) ==
    CASE item.t = "Object" -> <<46>>
      [] item.t = "List" -> <<91>> \o Dec(item.index) \o <<93>>
      [] item.t = "String" -> IF IsBareKey(item.s)
                              THEN Flat([i \in 1..Len(item.s) |-> EncodeUtf8(item.s[i])])
                              ELSE FmtTerminal(item)
      [] OTHER -> <<-1>>

PathPanics(ds) == \E i \in 1..Len(ds) : IsTerminal(ds[i]) /\ ds[i].t # "String"

\* print_path: the bytes written for the value stack ds (when it does not panic).
PrintPath(ds) == Flat([i \in 1..Len(ds) |-> PathItem(ds[i])])

(***************************************************************************)
(* do_action.  d is the record [ds, ss, es, out, err] of what an action    *)
(* reads and writes; err is "" until the action fails ("InvalidEscape",    *)
(* "Unicode") or panics ("panic").  What was written before a failure      *)
(* stays written.                                                          *)
(***************************************************************************)
Fail(d, e) == [d EXCEPT !.err = e]

EQ == <<32, 61, 32>>

NL == <<10>>

\* PushList pushing the marker of an object.
PushListAsObject(d) == [d EXCEPT !.ds = Append(d.ds, Object(TRUE))]

\* 0x1 and 0x2: push list, push object.
PushList(d) == [d EXCEPT !.ds = Append(d.ds, List(0))]

PushObject(d) == [d EXCEPT !.ds = Append(d.ds, Object(TRUE))]

\* 0x3: pop & append.
PopAppend(d) ==
    IF d.ds = <<>> THEN Fail(d, "panic")
    ELSE LET v == Last(d.ds)
             ds1 == Front(d.ds)
             d1 == IF IsTerminal(v)
                   THEN IF PathPanics(ds1) THEN Fail(d, "panic")
                        ELSE [d EXCEPT !.out = d.out \o PrintPath(ds1) \o EQ
                                                 \o FmtTerminal(v) \o NL]
                   ELSE d
         IN IF d1.err # "" THEN d1
            ELSE IF ds1 # <<>> /\ Last(ds1).t = "List"
                 THEN [d1 EXCEPT !.ds = [ds1 EXCEPT ![Len(ds1)] =
                                            List(Last(ds1).index + 1)]]
                 ELSE Fail([d1 EXCEPT !.ds = ds1], "panic")

\* ContainerText without the arm of the empty object.
ContainerTextListOnly(v) ==
    IF v.t = "List" /\ v.index = 0 THEN <<91, 93>> ELSE <<>>

\* ContainerText writing the empty object as the empty list is written.
ContainerTextAlike(v) ==
    IF v.t = "List" /\ v.index = 0 THEN <<91, 93>>
    ELSE IF v.t = "Object" /\ v.empty THEN <<91, 93>>
    ELSE <<>>

\* The right-hand side written for a container bound to a key: "[]", "{}",
\* or nothing (<<>>) when fields or elements of it were printed already.
ContainerText(v) ==
    IF v.t = "List" /\ v.index = 0 THEN <<91, 93>>
    ELSE IF v.t = "Object" /\ v.empty THEN <<123, 125>>
    ELSE <<>>

\* 0x4: pop pop & setitem.
SetItem(d) ==
    IF d.ds = <<>> THEN Fail(d, "panic")
    ELSE LET v == Last(d.ds)
             ds1 == Front(d.ds)
             rhs == IF IsTerminal(v) THEN FmtTerminal(v) ELSE ContainerText(v)
             d1 == IF rhs # <<>>
                   THEN IF PathPanics(ds1) THEN Fail(d, "panic")
                        ELSE [d EXCEPT !.out = d.out \o PrintPath(ds1) \o EQ \o rhs \o NL]
                   ELSE d
         IN IF d1.err # "" THEN d1
            ELSE IF ds1 = <<>> THEN Fail([d1 EXCEPT !.ds = ds1], "panic")
            ELSE LET ds2 == Front(ds1)
                 IN IF ds2 # <<>> /\ Last(ds2).t = "Object"
                    THEN [d1 EXCEPT !.ds = [ds2 EXCEPT ![Len(ds2)] = Object(FALSE)]]
                    ELSE Fail([d1 EXCEPT !.ds = ds2], "panic")

\* 0x5, 0x6, 0x7: push null, true, false.
PushTerminal(d, t) == [d EXCEPT !.ds = Append(d.ds, t)]

\* 0x8: push string.
PushString(d) ==
    IF ~IsValidUtf8(d.ss) THEN Fail(d, "Unicode")
    ELSE [d EXCEPT !.ds = Append(d.ds, TString(DecodeUtf8(d.ss))),
                   !.ss = <<>>, !.es = <<>>]

\* PushNumber without `ss.clear()`.
PushNumberKeepsBuffer(d) ==
    IF ~IsValidUtf8(d.ss) THEN Fail(d, "Unicode")
    ELSE [d EXCEPT !.ds = Append(d.ds, TNumber(d.ss))]

\* 0x9, 0xA: push int, push float.
PushNumber(d) ==
    IF ~IsValidUtf8(d.ss) THEN Fail(d, "Unicode")
    ELSE [d EXCEPT !.ds = Append(d.ds, TNumber(d.ss)), !.ss = <<>>]

\* 0xB: push ch to ss.
PushCh(ch, d) ==
    IF d.es # <<>>
    THEN [d EXCEPT !.ss = Append(d.ss, ch), !.es = <<>>, !.err = "InvalidEscape"]
    ELSE [d EXCEPT !.ss = Append(d.ss, ch)]

IsHexDigit(ch) == ch \in 48..57 \/ ch \in 65..70 \/ ch \in 97..102

\* 0xC: push ch to es.
PushEs(ch, d) ==
    IF ~IsHexDigit(ch) THEN Fail(d, "InvalidEscape")
    ELSE [d EXCEPT !.es = Append(d.es, ch)]

\* EscapeByte with the line feed in the place of the carriage return.
EscapeByteCrAsLf(ch) ==
    CASE ch = 98 -> 8
      [] ch = 116 -> 9
      [] ch = 110 -> 10
      [] ch = 102 -> 12
      [] ch = 114 -> 10
      [] OTHER -> -1

\* The control byte of a simple escape, -1 for any other byte.
EscapeByte(ch) ==
    CASE ch = 98 -> 8
      [] ch = 116 -> 9
      [] ch = 110 -> 10
      [] ch = 102 -> 12
      [] ch = 114 -> 13
      [] OTHER -> -1

\* 0xD: push escape.
PushEscape(ch, d) ==
    IF EscapeByte(ch) = -1 THEN Fail(d, "InvalidEscape")
    ELSE [d EXCEPT !.ss = Append(d.ss, EscapeByte(ch)), !.es = <<>>]

HexVal(ch) == IF ch \in 48..57 THEN ch - 48
              ELSE IF ch \in 65..70 THEN ch - 55
              ELSE ch - 87

\* u16::from_str_radix(s, 16) of hex digits; -1 when it fails.
RECURSIVE FromStrRadix16(_)
FromStrRadix16(s) ==
    IF s = <<>> THEN -1
    ELSE IF \E i \in 1..Len(s) : ~IsHexDigit(s[i]) THEN -1
    ELSE IF Len(s) = 1 THEN HexVal(s[1])
    ELSE LET v == FromStrRadix16(Front(s)) * 16 + HexVal(Last(s))
         IN IF v > 65535 THEN -1 ELSE v

\* (0xD800 ..= 0xDBFF).contains(&high)
IsHighSurrogate(u) == u \in 55296..56319

\* (0xDC00 ..= 0xDFFF).contains(&low)
IsLowSurrogate(u) == u \in 56320..57343

\* (0xD800..0xDBFF).contains(&two_bytes): the end of the range is excluded.
IsPendingHigh(u) == u >= 55296 /\ u < 56319

\* 0x1_0000 + (high - 0xD800) * 0x400 + (low - 0xDC00)
CombineSurrogates(high, low) == 65536 + (high - 55296) * 1024 + (low - 56320)

\* char::from_u32(c).is_some()
IsChar(c) == c \in 0..1114111 /\ c \notin 55296..57343

\* The code point of the escape buffer: -1 for an invalid escape, -2 while
\* a high surrogate waits for its low surrogate.
EscapeCodepoint(es) ==
    IF Len(es) = 8
    THEN LET high == FromStrRadix16(SubSeq(es, 1, 4))
             low == FromStrRadix16(SubSeq(es, 5, 8))
         IN IF high = -1 \/ ~IsHighSurrogate(high) THEN -1
            ELSE IF low = -1 \/ ~IsLowSurrogate(low) THEN -1
            ELSE CombineSurrogates(high, low)
    ELSE IF Len(es) = 4
    THEN LET two == FromStrRadix16(es)
         IN IF two = -1 THEN -1
            ELSE IF IsPendingHigh(two) THEN -2
            ELSE two
    ELSE -1

\* PushCodepoint without the final `es.clear()`.
PushCodepointKeepsEs(d) ==
    LET c == EscapeCodepoint(d.es)
    IN IF c = -1 THEN Fail(d, "InvalidEscape")
       ELSE IF c = -2 THEN d
       ELSE IF ~IsChar(c) THEN Fail(d, "InvalidEscape")
       ELSE [d EXCEPT !.ss = d.ss \o EncodeUtf8(c)]

\* 0xE: push unicode code point.
PushCodepoint(d) ==
    LET c == EscapeCodepoint(d.es)
    IN IF c = -1 THEN Fail(d, "InvalidEscape")
       ELSE IF c = -2 THEN d
       ELSE IF ~IsChar(c) THEN Fail(d, "InvalidEscape")
       ELSE [d EXCEPT !.ss = d.ss \o EncodeUtf8(c), !.es = <<>>]

DoAction(action, ch, d) ==
    CASE action = 1 -> PushList(d)
      [] action = 2 -> PushObject(d)
      [] action = 3 -> PopAppend(d)
      [] action = 4 -> SetItem(d)
      [] action = 5 -> PushTerminal(d, TNull)
      [] action = 6 -> PushTerminal(d, TBool(TRUE))
      [] action = 7 -> PushTerminal(d, TBool(FALSE))
      [] action = 8 -> PushString(d)
      [] action \in {9, 10} -> PushNumber(d)
      [] action = 11 -> PushCh(ch, d)
      [] action = 12 -> PushEs(ch, d)
      [] action = 13 -> PushEscape(ch, d)
      [] action = 14 -> PushCodepoint(d)
      [] OTHER -> Fail(d, "panic")

(***************************************************************************)
(* parse_ch: the transition loop for one byte.  p is a record with the     *)
(* fields stack, state, ds, ss, es, out and err.                           *)
(***************************************************************************)
\* A new top-level value: the separator is written and the value dropped.
NewTopLevel(state, ds) == state = 0 /\ ds # <<>>

\* Pushed without the test of the 0x80 flag.
PushedAlways(p, hi) == [p EXCEPT !.stack = Append(p.stack, GOTOS[p.state])]

\* `stack.push(GOTOS[state])` when the entry's high byte has the 0x80 flag.
Pushed(p, hi) ==
    IF hi >= 128 THEN [p EXCEPT !.stack = Append(p.stack, GOTOS[p.state])]
    ELSE p

\* Separated without `ds.pop()`.
SeparatedKeepsValue(p) ==
    IF NewTopLevel(p.state, p.ds) THEN [p EXCEPT !.out = p.out \o NL] ELSE p

\* A value starts at the top level while the previous one is still on ds:
\* a line feed is written and the previous value is dropped.
Separated(p) ==
    IF NewTopLevel(p.state, p.ds)
    THEN [p EXCEPT !.ds = Front(p.ds), !.out = p.out \o NL]
    ELSE p

\* The fields do_action() works on.
DataOf(p) == [ds |-> p.ds, ss |-> p.ss, es |-> p.es, out |-> p.out, err |-> ""]

WithData(p, d) ==
    [p EXCEPT !.ds = d.ds, !.ss = d.ss, !.es = d.es, !.out = d.out, !.err = d.err]

\* `if action > 0 { do_action(action, ch, ...)? }`
Acted(action, ch, p) ==
    IF action > 0 THEN WithData(p, DoAction(action, ch, DataOf(p))) ELSE p

RECURSIVE ParseCh(_, _, _)
RECURSIVE Moved(_, _, _, _)
\* The end of a turn of the loop: code 0xFF pops the control stack and
\* consults the table again on the same byte, any other code is the next
\* state and the byte is done.
Moved(cat, ch, p, code) ==
    IF p.err # "" THEN p
    ELSE IF code = 255
    THEN IF p.stack = <<>> THEN [p EXCEPT !.err = "panic"]
         ELSE ParseCh(cat, ch, [p EXCEPT !.stack = Front(p.stack),
                                         !.state = Last(p.stack)])
    ELSE [p EXCEPT !.state = code]

\* A turn of the loop on the table entry: high byte action, low byte code.
Turn(cat, ch, p, entry) ==
    IF entry = ERR THEN [p EXCEPT !.err = "Syntax"]
    ELSE Moved(cat, ch,
               Acted((entry \div 256) % 128, ch,
                     Separated(Pushed(p, (entry \div 256) % 256))),
               entry % 256)

ParseCh(cat, ch, p) == Turn(cat, ch, p, STATES[p.state][cat])

(***************************************************************************)
(* parse: the byte loop.                                                   *)
(*                                                                         *)
(* stack, state, ds, ss, es, line, col are the locals of parse(); out is   *)
(* what has been written to the output; consumed is what input.bytes() has *)
(* yielded so far and todo what a stream of fixed content still holds;     *)
(* eof is set once the stream has ended; result is what parse() returned   *)
(* ("none" while it runs); doc is the document a fixed stream was rendered *)
(* from.                                                                   *)
(***************************************************************************)
VARIABLES stack, state, ds, ss, es, line, col, out, consumed, todo, eof, result, doc

vars == <<stack, state, ds, ss, es, line, col, out, consumed, todo, eof, result, doc>>

Result(kind, l, c) == [kind |-> kind, line |-> l, col |-> c]

\* Running with the early return on an error left out.
RunningPastErrors == TRUE

\* parse() has not returned: no `?` has left it and the input has not ended.
Running == result.kind = "none"

\* The position after reading byte ch.
NextLine(l, ch) == IF ch = 10 THEN l + 1 ELSE l

\* NextCol without the reset at a line feed.
NextColNoReset(c, ch) == c + 1

NextCol(c, ch) == IF ch = 10 THEN 0 ELSE c + 1

Min(a, b) == IF a < b THEN a ELSE b

InitParser ==
    /\ stack = <<>>
    /\ state = 0
    /\ ds = <<>>
    /\ ss = <<>>
    /\ es = <<>>
    /\ line = 1
    /\ col = 0
    /\ out = <<>>
    /\ consumed = <<>>
    /\ eof = FALSE
    /\ result = Result("none", 0, 0)

\* The locals of parse() as one record; kind is "none" while it runs.
Locals == [stack |-> stack, state |-> state, ds |-> ds, ss |-> ss, es |-> es,
           out |-> out, err |-> "", line |-> line, col |-> col, kind |-> "none"]

Fresh == [stack |-> <<>>, state |-> 0, ds |-> <<>>, ss |-> <<>>, es |-> <<>>,
          out |-> <<>>, err |-> "", line |-> 1, col |-> 0, kind |-> "none"]

\* `?` on the result of parse_ch: an error leaves parse() with its kind.
Raised(p) == IF p.err # "" THEN [p EXCEPT !.kind = p.err] ELSE p

\* One turn of the loop `for maybe_ch in input.bytes()` on byte ch.
LoopBody(q, ch) ==
    Raised(ParseCh(CATCODE[Min(ch, 126)], ch,
                   [q EXCEPT !.line = NextLine(q.line, ch),
                             !.col = NextCol(q.col, ch)]))

\* The check after the pass for the end of the input.
EndCheck(p) ==
    IF p.err # "" THEN [p EXCEPT !.kind = p.err]
    ELSE IF p.state # 0 THEN [p EXCEPT !.kind = "Truncated"]
    ELSE [p EXCEPT !.kind = "Ok"]

\* EndPass with the category of the byte `?` that it hands to parse_ch.
EndPassOwnCategory(q) == EndCheck(ParseCh(CATCODE[63], 63, q))

\* The pass for the end of the input, and the check that follows it.
EndPass(q) == EndCheck(ParseCh(CATCODE[32], 63, q))

\* parse() on a whole input: the locals it ends with.
RECURSIVE ParseFrom(_, _)
ParseFrom(q, input) ==
    IF q.kind # "none" THEN q
    ELSE IF input = <<>> THEN EndPass(q)
    ELSE ParseFrom(LoopBody(q, Head(input)), Tail(input))

Parse(input) == ParseFrom(Fresh, input)

\* The locals, the output and the result after a step that left q.
Commit(q) ==
    /\ stack' = q.stack
    /\ state' = q.state
    /\ ds' = q.ds
    /\ ss' = q.ss
    /\ es' = q.es
    /\ out' = q.out
    /\ line' = q.line
    /\ col' = q.col
    /\ result' = IF q.kind = "none" THEN result ELSE Result(q.kind, q.line, q.col)

ReadByte(ch) ==
    /\ Commit(LoopBody(Locals, ch))
    /\ consumed' = Append(consumed, ch)

Finish ==
    /\ Commit(EndPass(Locals))
    /\ consumed' = consumed

(***************************************************************************)
(* Spec: a stream of arbitrary bytes.  Any byte of Alphabet may come next, *)
(* up to MaxLen bytes; the stream may end at any point.                    *)
(***************************************************************************)
MaxLen == 5

\* [ ] { } , : " \ 1 LF n u and a byte that is not ASCII.
Alphabet == {91, 93, 123, 125, 44, 58, 34, 92, 49, 10, 110, 117, 255}

Init ==
    /\ InitParser
    /\ todo = <<>>
    /\ doc = <<>>

Feed(ch) ==
    /\ Running
    /\ ~eof
    /\ Len(consumed) < MaxLen
    /\ ReadByte(ch)
    /\ UNCHANGED <<todo, eof, doc>>

EndOfInput ==
    /\ Running
    /\ ~eof
    /\ todo = <<>>
    /\ Finish
    /\ eof' = TRUE
    /\ UNCHANGED <<todo, doc>>

Next ==
    \/ \E ch \in Alphabet : Feed(ch)
    \/ EndOfInput

Spec == Init /\ [][Next]_vars

(***************************************************************************)
(* JSON documents, for the streams of fixed content.                       *)
(*                                                                         *)
(* A node is [k, text, kids]: k is "null", "true", "false", "num", "str",  *)
(* "list" or "object"; text is the literal of a number or the characters   *)
(* of a string; kids are the elements or fields, each [key, val] (the key  *)
(* of a list element is empty).  A document is the sequence of the         *)
(* top-level values of a stream.                                           *)
(***************************************************************************)
Leaf(k, text) == [k |-> k, text |-> text, kids |-> <<>>]

Kid(key, val) == [key |-> key, val |-> val]

IsScalar(node) == node.k \notin {"list", "object"}

\* null, true, 1, "a"
Scalars == {Leaf("null", <<>>), Leaf("true", <<>>), Leaf("num", <<49>>),
            Leaf("str", <<97>>)}

\* a (a bare identifier) and - (not one)
Keys == {<<97>>, <<45>>}

MaxNodes == 3

\* Trees(n): the values of exactly n nodes; Forests(m, keyed): the sequences
\* of kids holding m nodes in all, with keys from Keys when keyed.
RECURSIVE Trees(_), Forests(_, _)
Trees(n) ==
    (IF n = 1 THEN Scalars ELSE {})
    \cup {[k |-> "list", text |-> <<>>, kids |-> f] : f \in Forests(n - 1, FALSE)}
    \cup {[k |-> "object", text |-> <<>>, kids |-> f] : f \in Forests(n - 1, TRUE)}

Forests(m, keyed) ==
    IF m = 0 THEN {<<>>}
    ELSE UNION {{<<Kid(key, t)>> \o f :
                    key \in (IF keyed THEN Keys ELSE {<<>>}),
                    t \in Trees(j), f \in Forests(m - j, keyed)} : j \in 1..m}

Docs == UNION {Forests(m, FALSE) : m \in 0..MaxNodes}

\* The bytes between two top-level values: a space, or a line feed.
Gaps == {<<32>>, <<10>>}

\* The JSON text of a node (the strings of the documents need no escapes).
RECURSIVE Render(_), RenderKids(_, _)
Render(node) ==
    CASE node.k = "null" -> <<110, 117, 108, 108>>
      [] node.k = "true" -> <<116, 114, 117, 101>>
      [] node.k = "false" -> <<102, 97, 108, 115, 101>>
      [] node.k = "num" -> node.text
      [] node.k = "str" -> <<34>> \o node.text \o <<34>>
      [] node.k = "list" -> <<91>> \o RenderKids(node.kids, FALSE) \o <<93>>
      [] OTHER -> <<123>> \o RenderKids(node.kids, TRUE) \o <<125>>

RenderKids(kids, keyed) ==
    IF kids = <<>> THEN <<>>
    ELSE (IF keyed THEN <<34>> \o Head(kids).key \o <<34, 58>> ELSE <<>>)
         \o Render(Head(kids).val)
         \o (IF Len(kids) > 1 THEN <<44>> ELSE <<>>)
         \o RenderKids(Tail(kids), keyed)

RECURSIVE RenderStream(_, _)
RenderStream(d, gap) ==
    IF d = <<>> THEN <<>>
    ELSE Render(Head(d).val)
         \o (IF Len(d) > 1 THEN gap ELSE <<>>)
         \o RenderStream(Tail(d), gap)

(***************************************************************************)
(* SpecDoc: the stream holds the text of a document.                       *)
(***************************************************************************)
InitDoc ==
    /\ InitParser
    /\ \E d \in Docs, gap \in Gaps :
          /\ doc = d
          /\ todo = RenderStream(d, gap)

ReadNext ==
    /\ Running
    /\ ~eof
    /\ todo # <<>>
    /\ ReadByte(Head(todo))
    /\ todo' = Tail(todo)
    /\ UNCHANGED <<eof, doc>>

NextDoc ==
    \/ ReadNext
    \/ EndOfInput

SpecDoc == InitDoc /\ [][NextDoc]_vars

(***************************************************************************)
(* Reading the output back: its lines, and the path and the value of a     *)
(* line `<path> = <value>`.                                                *)
(***************************************************************************)
\* The first index of byte b in bs, 0 when there is none.
FirstIndex(bs, b) ==
    IF \E i \in 1..Len(bs) : bs[i] = b
    THEN CHOOSE i \in 1..Len(bs) : bs[i] = b /\ \A j \in 1..(i - 1) : bs[j] # b
    ELSE 0

\* The lines of bs, without their line feeds.
RECURSIVE SplitLines(_)
SplitLines(bs) ==
    IF bs = <<>> THEN <<>>
    ELSE LET i == FirstIndex(bs, 10)
         IN IF i = 0 THEN <<bs>>
            ELSE <<SubSeq(bs, 1, i - 1)>> \o SplitLines(SubSeq(bs, i + 1, Len(bs)))

\* Where " = " starts in a line, 0 when it does not occur.
EqIndex(ln) ==
    LET hit(i) == i + 2 <= Len(ln) /\ SubSeq(ln, i, i + 2) = <<32, 61, 32>>
    IN IF \E i \in 1..Len(ln) : hit(i)
       THEN CHOOSE i \in 1..Len(ln) : hit(i) /\ \A j \in 1..(i - 1) : ~hit(j)
       ELSE 0

PathOf(ln) == IF EqIndex(ln) = 0 THEN ln ELSE SubSeq(ln, 1, EqIndex(ln) - 1)

ValueOf(ln) == IF EqIndex(ln) = 0 THEN <<>> ELSE SubSeq(ln, EqIndex(ln) + 3, Len(ln))

IsBlank(ln) == ln = <<>>

IsPrinted(ln) == ln # <<>>

IsContainerLine(ln) == ln # <<>> /\ ValueOf(ln) \in {<<91, 93>>, <<123, 125>>}

IsScalarLine(ln) == ln # <<>> /\ ValueOf(ln) \notin {<<91, 93>>, <<123, 125>>}

OutLines == SplitLines(out)

PrintedLines == SelectSeq(OutLines, IsPrinted)

Accepted == result.kind = "Ok"

(***************************************************************************)
(* What a document is expected to print: its leaves (scalars and empty     *)
(* containers) in document order, each with its root-to-leaf path, its     *)
(* text, and where it sits: "top" (a top-level value), "elem" (an element  *)
(* of a list) or "field" (the value of an object field).                   *)
(***************************************************************************)
IsIdentifier(key) ==
    \A i \in 1..Len(key) :
        key[i] \in (48..57) \cup (65..90) \cup (97..122) \cup {95}

KeyText(key) == IF IsIdentifier(key) THEN key ELSE <<34>> \o key \o <<34>>

LeafText(node) ==
    CASE node.k = "list" -> <<91, 93>>
      [] node.k = "object" -> <<123, 125>>
      [] OTHER -> Render(node)

RECURSIVE Leaves(_, _, _), KidLeaves(_, _, _, _)
Leaves(node, path, at) ==
    IF node.kids = <<>>
    THEN <<[path |-> path, text |-> LeafText(node), scalar |-> IsScalar(node), at |-> at]>>
    ELSE KidLeaves(node, path, 1, <<>>)

KidLeaves(node, path, i, acc) ==
    IF i > Len(node.kids) THEN acc
    ELSE LET kid == node.kids[i]
             sub == IF node.k = "list"
                    THEN Leaves(kid.val, path \o <<91>> \o Dec(i - 1) \o <<93>>, "elem")
                    ELSE Leaves(kid.val, path \o <<46>> \o KeyText(kid.key), "field")
         IN KidLeaves(node, path, i + 1, acc \o sub)

DocLeaves(d) == Flat([i \in 1..Len(d) |-> Leaves(d[i].val, <<>>, "top")])

IsScalarLeaf(lf) == lf.scalar

\* The leaves that get a line: a scalar below the top level, and an empty
\* container bound to an object field.
IsLineLeaf(lf) == IF lf.scalar THEN lf.at # "top" ELSE lf.at = "field"

IsFieldContainerLeaf(lf) == ~lf.scalar /\ lf.at = "field"

Texts(lfs) == [i \in 1..Len(lfs) |-> lfs[i].text]

Paths(lfs) == [i \in 1..Len(lfs) |-> lfs[i].path]

LinePaths(lns) == [i \in 1..Len(lns) |-> PathOf(lns[i])]

LineValues(lns) == [i \in 1..Len(lns) |-> ValueOf(lns[i])]

(***************************************************************************)
(* C1 (as claimed): every scalar of every top-level value, a scalar that   *)
(* is itself the top-level value included, gets exactly one line           *)
(* `<path> = <value>`, in document order.                                  *)
(***************************************************************************)
C1_EveryScalarHasALine ==
    Accepted =>
        LineValues(SelectSeq(OutLines, IsScalarLine))
            = Texts(SelectSeq(DocLeaves(doc), IsScalarLeaf))

(***************************************************************************)
(* C2: the path of each printed line is the root-to-leaf nesting of the    *)
(* value it prints: [k] for each enclosing list, k the number of elements  *)
(* completed before it, and . followed by the key for each enclosing       *)
(* object.                                                                 *)
(***************************************************************************)
C2_PathIsNesting ==
    Accepted => LinePaths(PrintedLines) = Paths(SelectSeq(DocLeaves(doc), IsLineLeaf))

\* A line under a list and an object, and a line at index 1 or more.
C2_Witness ==
    /\ Accepted
    /\ \E i \in 1..Len(PrintedLines) :
          LET path == PathOf(PrintedLines[i])
          IN /\ \E j \in 1..Len(path) : path[j] = 46
             /\ \E j \in 1..Len(path) : path[j] = 93

(***************************************************************************)
(* C3: an empty array or object bound to an object field prints one line   *)
(* `<path> = []` or `<path> = {}`; no other container prints a line: not   *)
(* one with an element or field, and not an empty one that is the root or  *)
(* an element of a list.                                                   *)
(***************************************************************************)
C3_EmptyContainerLines ==
    Accepted =>
        LET lns == SelectSeq(OutLines, IsContainerLine)
            lfs == SelectSeq(DocLeaves(doc), IsFieldContainerLeaf)
        IN /\ LinePaths(lns) = Paths(lfs)
           /\ LineValues(lns) = Texts(lfs)
           /\ Len(PrintedLines) = Len(SelectSeq(DocLeaves(doc), IsLineLeaf))

\* An empty container bound to a field next to an empty top-level one.
C3_Witness ==
    /\ Accepted
    /\ \E i \in 1..Len(OutLines) : IsContainerLine(OutLines[i])
    /\ \E i \in 1..Len(doc) : doc[i].val.k \in {"list", "object"} /\ doc[i].val.kids = <<>>

(***************************************************************************)
(* C4 (as claimed): a stream of n >= 1 top-level values gets exactly n - 1 *)
(* separator lines, none after the last value.                             *)
(***************************************************************************)
C4_SeparatorsBetweenValues ==
    (Accepted /\ Len(doc) >= 1) => Len(SelectSeq(OutLines, IsBlank)) = Len(doc) - 1

(***************************************************************************)
(* Comparing the output of a document with the output of other documents.  *)
(***************************************************************************)
MaxProbeNodes == 2

\* The documents the output is compared with, each with what parse() writes
\* for it.
Probes == UNION {Forests(m, FALSE) : m \in 0..MaxProbeNodes}

ProbeRuns ==
    {[d |-> d, run |-> Parse(RenderStream(d, <<32>>))] : d \in Probes}

ProbeOuts ==
    {[d |-> pr.d, out |-> pr.run.out] : pr \in {x \in ProbeRuns : x.run.kind = "Ok"}}

DistinctKeys(kids) ==
    \A i, j \in 1..Len(kids) : i # j => kids[i].key # kids[j].key

\* Every leaf of the value gets a line, and no object repeats a key.
RECURSIVE AllVisible(_, _)
AllVisible(node, at) ==
    IF IsScalar(node) THEN at # "top"
    ELSE IF node.kids = <<>> THEN at = "field"
    ELSE /\ node.k = "object" => DistinctKeys(node.kids)
         /\ \A i \in 1..Len(node.kids) :
               AllVisible(node.kids[i].val, IF node.k = "list" THEN "elem" ELSE "field")

AllVisibleDoc(d) == \A i \in 1..Len(d) : AllVisible(d[i].val, "top")

Piece(k, u, upper) == [k |-> k, u |-> u, upper |-> upper]

\* U+0041, and the code units around the two surrogate ranges.
Units == {65, 55295, 55296, 56319, 56320, 57343, 57344}

Pieces ==
    {Piece("u", u, up) : u \in Units, up \in BOOLEAN}
    \cup {Piece(k, 0, FALSE) : k \in {"plain", "simple", "short", "nonhex"}}

MaxPieces == 2

RECURSIVE PieceSeqs(_)
PieceSeqs(n) ==
    IF n = 0 THEN {<<>>}
    ELSE {<<>>} \cup {<<pc>> \o r : pc \in Pieces, r \in PieceSeqs(n - 1)}

UpperHexDigit(d) == IF d < 10 THEN 48 + d ELSE 55 + d

UpperHex4(n) == <<UpperHexDigit((n \div 4096) % 16), UpperHexDigit((n \div 256) % 16),
                  UpperHexDigit((n \div 16) % 16), UpperHexDigit(n % 16)>>

RenderPiece(pc) ==
    CASE pc.k = "u" -> <<92, 117>> \o (IF pc.upper THEN UpperHex4(pc.u) ELSE Hex4(pc.u))
      [] pc.k = "plain" -> <<120>>
      [] pc.k = "simple" -> <<92, 110>>
      [] pc.k = "short" -> <<92, 117, 49, 50>>
      [] OTHER -> <<92, 117, 49, 50, 103, 52>>

RenderEsc(pcs) ==
    <<91, 34>> \o Flat([i \in 1..Len(pcs) |-> RenderPiece(pcs[i])]) \o <<34, 93>>

InitEsc ==
    /\ InitParser
    /\ \E pcs \in PieceSeqs(MaxPieces) :
          /\ doc = pcs
          /\ todo = RenderEsc(pcs)

SpecEsc == InitEsc /\ [][NextDoc]_vars

\* The characters a sequence of pieces stands for; <<-1>> when it holds a
\* malformed escape: too few digits, a digit that is not hexadecimal, a low
\* surrogate on its own, a high surrogate without a low surrogate escape
\* right after it.
RECURSIVE Meaning(_)
Meaning(pcs) ==
    IF pcs = <<>> THEN <<>>
    ELSE LET pc == Head(pcs)
             paired == /\ pc.k = "u" /\ pc.u \in 55296..56319
                       /\ Len(pcs) >= 2
                       /\ pcs[2].k = "u" /\ pcs[2].u \in 56320..57343
             first == CASE pc.k = "plain" -> 120
                        [] pc.k = "simple" -> 10
                        [] pc.k \in {"short", "nonhex"} -> -1
                        [] OTHER -> IF paired
                                    THEN 65536 + (pc.u - 55296) * 1024 + (pcs[2].u - 56320)
                                    ELSE IF pc.u \in 55296..57343 THEN -1
                                    ELSE pc.u
             rest == IF first = -1 THEN <<>>
                     ELSE Meaning(SubSeq(pcs, IF paired THEN 3 ELSE 2, Len(pcs)))
         IN IF first = -1 \/ (rest # <<>> /\ rest[1] = -1) THEN <<-1>>
            ELSE <<first>> \o rest

Malformed(pcs) == Meaning(pcs) # <<>> /\ Meaning(pcs)[1] = -1

OnlyEscapes(pcs) == \A i \in 1..Len(pcs) : pcs[i].k = "u"

(***************************************************************************)
(* C6 (as claimed): every malformed \u escape makes parse return           *)
(* InvalidEscape, and the string is not printed.                           *)
(***************************************************************************)
C6_MalformedEscapeRejected ==
    (~Running /\ Malformed(doc)) => (result.kind = "InvalidEscape" /\ out = <<>>)

(***************************************************************************)
(* C7 (as claimed): every high surrogate 0xD800..0xDBFF followed by a low  *)
(* surrogate 0xDC00..0xDFFF is accepted and decodes to                     *)
(* 0x10000 + (h - 0xD800) * 0x400 + (l - 0xDC00); every other escape of    *)
(* four digits outside 0xD800..0xDFFF decodes to its own code point.       *)
(***************************************************************************)
C7_SurrogatePairsDecode ==
    (OnlyEscapes(doc) /\ ~Malformed(doc)) =>
        /\ ~Running => Accepted
        /\ (state = S_DONE /\ ds # <<>> /\ Last(ds).t = "String")
              => Last(ds).s = Meaning(doc)

(***************************************************************************)
(* What is open at the end of an input that was read without an error:     *)
(* the brackets not closed yet, and a string not closed yet.               *)
(***************************************************************************)
\* The scan of bs from byte i on: depth counts the open brackets, inStr
\* tells a string is open, esc that its last byte was an unescaped \.
RECURSIVE Scan(_, _, _, _, _)
Scan(bs, i, depth, inStr, esc) ==
    IF i > Len(bs) THEN [depth |-> depth, inStr |-> inStr]
    ELSE LET b == bs[i]
         IN IF inStr
            THEN IF esc THEN Scan(bs, i + 1, depth, TRUE, FALSE)
                 ELSE IF b = 92 THEN Scan(bs, i + 1, depth, TRUE, TRUE)
                 ELSE IF b = 34 THEN Scan(bs, i + 1, depth, FALSE, FALSE)
                 ELSE Scan(bs, i + 1, depth, TRUE, FALSE)
            ELSE IF b = 34 THEN Scan(bs, i + 1, depth, TRUE, FALSE)
                 ELSE IF b \in {91, 123} THEN Scan(bs, i + 1, depth + 1, FALSE, FALSE)
                 ELSE IF b \in {93, 125} THEN Scan(bs, i + 1, depth - 1, FALSE, FALSE)
                 ELSE Scan(bs, i + 1, depth, FALSE, FALSE)

OpenAtEnd(bs) == LET sc == Scan(bs, 1, 0, FALSE, FALSE) IN sc.depth > 0 \/ sc.inStr

Failed == result.kind \notin {"none", "Ok"}

(***************************************************************************)
(* C5 (as claimed): an input that ends while an object, an array or a      *)
(* string is open makes parse return Truncated, never Syntax or            *)
(* InvalidEscape, and never panic.                                         *)
(***************************************************************************)
C5_OpenInputIsTruncated ==
    (eof /\ OpenAtEnd(consumed)) => result.kind = "Truncated"

(***************************************************************************)
(* C9: the line of an error is 1 plus the number of line feeds read, and   *)
(* its column the number of bytes read after the last of them; an error    *)
(* of the pass for the end of the input carries the position of the last   *)
(* byte read.                                                              *)
(***************************************************************************)
LineFeeds(bs) == Cardinality({i \in 1..Len(bs) : bs[i] = 10})

LastLineFeed(bs) ==
    IF \E i \in 1..Len(bs) : bs[i] = 10
    THEN CHOOSE i \in 1..Len(bs) : bs[i] = 10 /\ \A j \in (i + 1)..Len(bs) : bs[j] # 10
    ELSE 0

C9_ErrorPosition ==
    Failed =>
        /\ result.line = 1 + LineFeeds(consumed)
        /\ result.col = Len(consumed) - LastLineFeed(consumed)

\* An error at a byte after a line feed, further bytes read on that line.
C9_Witness ==
    /\ Failed
    /\ ~eof
    /\ result.line >= 2
    /\ result.col >= 2

(***************************************************************************)
(* C10: the first error ends the parse: no byte is read after it, nothing  *)
(* is written after it, and it stays the result.                           *)
(***************************************************************************)
C10_FirstErrorAborts ==
    [][Failed => (result' = result /\ out' = out /\ consumed' = consumed /\ eof' = eof)]_vars

\* An error, with output written before it and room for more input.
C10_Witness ==
    /\ Failed
    /\ ~eof
    /\ out # <<>>
    /\ Len(consumed) < MaxLen

(***************************************************************************)
(* SpecStr: the stream holds one object of one field whose key and value   *)
(* are the same string s, written the same way: {"s":"s"}.  The string is  *)
(* written in one of three ways:                                           *)
(*   fmt    as Terminal::fmt writes it                                     *)
(*   short  with the two-character escapes of JSON where there is one,     *)
(*          \u00XX for the other control characters, the rest raw          *)
(*   hex    every character as \uXXXX, a surrogate pair above U+FFFF       *)
(***************************************************************************)
\* " \ / BS TAB FF LF CR U+0001 space _ a, and characters of two, three
\* and four bytes in UTF-8 (U+00E9, U+2699, U+1F600, U+10FFFF).
Chars == {34, 92, 47, 8, 9, 12, 10, 13, 1, 32, 95, 97, 233, 9881, 128512, 1114111}

MaxChars == 2

RECURSIVE CharSeqs(_)
CharSeqs(n) ==
    IF n = 0 THEN {<<>>}
    ELSE {<<>>} \cup {<<c>> \o r : c \in Chars, r \in CharSeqs(n - 1)}

Modes == {"fmt", "short", "hex"}

\* The letter of the two-character escape of c in JSON, 0 when it has none.
ShortLetter(c) ==
    CASE c = 34 -> 34
      [] c = 92 -> 92
      [] c = 8 -> 98
      [] c = 9 -> 116
      [] c = 12 -> 102
      [] c = 10 -> 110
      [] c = 13 -> 114
      [] OTHER -> 0

ShortChar(c) ==
    IF ShortLetter(c) # 0 THEN <<92, ShortLetter(c)>>
    ELSE IF c < 32 THEN <<92, 117>> \o UpperHex4(c)
    ELSE EncodeUtf8(c)

\* c as \uXXXX, as the pair of its UTF-16 surrogates above U+FFFF.
HexChar(c) ==
    IF c < 65536 THEN <<92, 117>> \o Hex4(c)
    ELSE <<92, 117>> \o Hex4(55296 + ((c - 65536) \div 1024))
         \o <<92, 117>> \o Hex4(56320 + ((c - 65536) % 1024))

\* The string literal of s in a mode, with its quotes.
Literal(s, mode) ==
    IF mode = "fmt" THEN FmtTerminal(TString(s))
    ELSE <<34>>
         \o Flat([i \in 1..Len(s) |-> IF mode = "short" THEN ShortChar(s[i])
                                      ELSE HexChar(s[i])])
         \o <<34>>

RenderField(s, mode) ==
    <<123>> \o Literal(s, mode) \o <<58>> \o Literal(s, mode) \o <<125>>

InitStr ==
    /\ InitParser
    /\ \E s \in CharSeqs(MaxChars), mode \in Modes :
          /\ doc = [s |-> s, mode |-> mode]
          /\ todo = RenderField(s, mode)

SpecStr == InitStr /\ [][NextDoc]_vars

\* The one line of the output of an accepted field, its path without the
\* leading `.`, and its value.
FieldLine == OutLines[1]

FieldKeyText == Tail(PathOf(FieldLine))

FieldValueText == ValueOf(FieldLine)

\* The bytes of the characters of s.
Utf8(s) == Flat([i \in 1..Len(s) |-> EncodeUtf8(s[i])])

(***************************************************************************)
(* C11: a key is printed unquoted, as its own characters, exactly when     *)
(* every character of it is an ASCII letter, an ASCII digit or an          *)
(* underscore; any other key is printed in the quoted, escaped form in     *)
(* which the same string is printed as a value.                            *)
(***************************************************************************)
C11_BareKeysUnquoted ==
    Accepted =>
        /\ out = <<46>> \o FieldKeyText \o EQ \o FieldValueText \o NL \o NL
        /\ FieldValueText[1] = 34
        /\ IF IsIdentifier(doc.s)
           THEN FieldKeyText = Utf8(doc.s)
           ELSE FieldKeyText = FieldValueText

\* An underscore in a bare key, and a key with a space printed quoted.
C11_Witness ==
    /\ Accepted
    /\ \/ doc.s = <<95, 97>>
       \/ doc.s = <<97, 32>>

(***************************************************************************)
(* C12: formatting and parsing of strings are inverse.  The text that      *)
(* Terminal::fmt writes for a string s is accepted as a string literal and *)
(* decodes to s, as a key and as a value; and a string written with the    *)
(* two-character escapes \" \\ \b \t \f \n \r is printed with these same   *)
(* escapes: the value printed is the literal that was read.                *)
(***************************************************************************)
C12_FormatParseInverse ==
    doc.mode \in {"fmt", "short"} =>
        /\ ~Running => Accepted
        /\ \A i \in 1..Len(ds) : ds[i].t = "String" => ds[i].s = doc.s
        /\ Accepted => FieldValueText = Literal(doc.s, doc.mode)

\* The value has been decoded, from the formatted text of a quote and a
\* control character without a short escape, or from the escape \r.
C12_Witness ==
    /\ Len(ds) = 3
    /\ ds[3].t = "String"
    /\ \/ doc.mode = "fmt" /\ doc.s = <<34, 1>>
       \/ doc.mode = "short" /\ doc.s = <<13, 10>>

(***************************************************************************)
(* SpecNum: the stream holds a list or an object of number literals, with  *)
(* the string "7" among them: [n,m], [n ,m ] or {"a":n,"b":m}, or the      *)
(* literals as top-level values: n m.  A literal                           *)
(* is an optional sign, an integer part, an optional fraction and an       *)
(* optional exponent.                                                      *)
(***************************************************************************)
\* 0 -0 12 -12 0.5 12.5 0e1 12E+1 12e-1 0.5E+1 -0.5e-1 -12.5e-1
NumberLiterals ==
    {<<48>>, <<45, 48>>, <<49, 50>>, <<45, 49, 50>>,
     <<48, 46, 53>>, <<49, 50, 46, 53>>,
     <<48, 101, 49>>, <<49, 50, 69, 43, 49>>, <<49, 50, 101, 45, 49>>,
     <<48, 46, 53, 69, 43, 49>>, <<45, 48, 46, 53, 101, 45, 49>>,
     <<45, 49, 50, 46, 53, 101, 45, 49>>}

\* The items of a stream: the number literals and the string "7".
Items == NumberLiterals \cup {<<34, 55, 34>>}

MaxItems == 2

RECURSIVE ItemSeqs(_)
ItemSeqs(n) ==
    IF n = 0 THEN {<<>>}
    ELSE {<<>>} \cup {<<it>> \o r : it \in Items, r \in ItemSeqs(n - 1)}

\* list: [n,m]; spaced: [n ,m ]; object: {"a":n,"b":m}; top: n m
Forms == {"list", "spaced", "object", "top"}

\* The key of field i: a, b, c, ...
FieldKey(i) == <<96 + i>>

RECURSIVE RenderItems(_, _, _)
RenderItems(its, form, i) ==
    IF i > Len(its) THEN <<>>
    ELSE (IF form = "object" THEN <<34>> \o FieldKey(i) \o <<34, 58>> ELSE <<>>)
         \o its[i]
         \o (IF form = "spaced" THEN <<32>> ELSE <<>>)
         \o (IF i < Len(its) THEN (IF form = "top" THEN <<32>> ELSE <<44>>) ELSE <<>>)
         \o RenderItems(its, form, i + 1)

RenderNumbers(its, form) ==
    IF form = "top" THEN RenderItems(its, form, 1)
    ELSE (IF form = "object" THEN <<123>> ELSE <<91>>)
         \o RenderItems(its, form, 1)
         \o (IF form = "object" THEN <<125>> ELSE <<93>>)

InitNum ==
    /\ InitParser
    /\ \E its \in ItemSeqs(MaxItems), form \in Forms :
          /\ doc = [items |-> its, form |-> form]
          /\ todo = RenderNumbers(its, form)

SpecNum == InitNum /\ [][NextDoc]_vars

\* The path expected for item i.
ItemPath(form, i) ==
    IF form = "object" THEN <<46>> \o FieldKey(i)
    ELSE <<91>> \o Dec(i - 1) \o <<93>>

(***************************************************************************)
(* C13: the value printed for a number is the text of its literal, byte    *)
(* for byte: nothing of a literal before it, nothing of the comma,         *)
(* bracket, brace or space that ends it.  Every stream of literals is      *)
(* accepted and, the literals not being top-level values, prints one line  *)
(* per item; whenever a Number is on the value stack its text is a literal *)
(* of the stream and the accumulation buffer is empty.                     *)
(***************************************************************************)
C13_NumberTextVerbatim ==
    /\ ~Running => Accepted
    /\ (Accepted /\ doc.form # "top") =>
          /\ Len(PrintedLines) = Len(doc.items)
          /\ \A i \in 1..Len(doc.items) :
                /\ ValueOf(PrintedLines[i]) = doc.items[i]
                /\ PathOf(PrintedLines[i]) = ItemPath(doc.form, i)
    /\ \A i \in 1..Len(ds) :
          ds[i].t = "Number" =>
              /\ ss = <<>>
              /\ \E k \in 1..Len(doc.items) : ds[i].s = doc.items[k]

\* A number with all four parts printed after another literal, each ended
\* by a space.
C13_Witness ==
    /\ Accepted
    /\ doc.form = "spaced"
    /\ Len(doc.items) = 2
    /\ doc.items[2] = <<45, 49, 50, 46, 53, 101, 45, 49>>
    /\ Len(PrintedLines) = 2

(***************************************************************************)
(* C14: every character at or above U+0080 of a key or of a string value,  *)
(* read as raw UTF-8 or as \u escapes (a surrogate pair included), is      *)
(* written as the character itself: the characters at or above U+0080 of   *)
(* the key text and of the value text of the output, read as UTF-8, are    *)
(* those of the string, in order (an escape or a pair of escapes in their  *)
(* place would leave ASCII only).                                          *)
(***************************************************************************)
IsNonAscii(c) == c >= 128

C14_NonAsciiWrittenRaw ==
    Accepted =>
        /\ SelectSeq(DecodeUtf8(FieldValueText), IsNonAscii) = SelectSeq(doc.s, IsNonAscii)
        /\ SelectSeq(DecodeUtf8(FieldKeyText), IsNonAscii) = SelectSeq(doc.s, IsNonAscii)

\* U+1F600 and U+00E9 read from escapes, and U+10FFFF read raw.
C14_Witness ==
    /\ Accepted
    /\ \/ doc.mode = "hex" /\ doc.s = <<128512, 233>>
       \/ doc.mode = "fmt" /\ doc.s = <<1114111>>

(***************************************************************************)
(* C15: between two bytes, the initial state comes with an empty control   *)
(* stack and with at most one value on the value stack; so parse returns   *)
(* Ok only with an empty control stack, and an input that leaves a return  *)
(* state on the control stack is not accepted.                             *)
(***************************************************************************)
C15_InitialStateMeansEmptyStack ==
    /\ state = S_TOP => (stack = <<>> /\ Len(ds) <= 1)
    /\ Accepted => (state = S_TOP /\ stack = <<>>)
    /\ (eof /\ stack # <<>>) => Failed

\* Back in the initial state after a list in a list.
C15_Witness ==
    /\ Running
    /\ state = S_TOP
    /\ consumed = <<91, 91, 93, 93, 10>>

(***************************************************************************)
(* C16 (as claimed): every entry of the value stack other than the topmost *)
(* is an Object or a List marker; a Terminal only ever is the top entry.   *)
(***************************************************************************)
C16_TerminalsOnlyOnTop ==
    \A i \in 1..(Len(ds) - 1) : ds[i].t \in {"Object", "List"}

(***************************************************************************)
(* C16 (amended): every entry of the value stack other than the topmost is *)
(* an Object marker, a List marker, or the String key of the field being   *)
(* read, which sits directly above the Object marker of its object; a      *)
(* Null, Bool or Number, and a String that is not such a key, only ever is *)
(* the top entry.                                                          *)
(***************************************************************************)
IsPendingKey(i) == ds[i].t = "String" /\ i > 1 /\ ds[i - 1].t = "Object"

C16_TerminalsOnTopOrKeys ==
    /\ \A i \in 1..(Len(ds) - 1) : ds[i].t \in {"Object", "List"} \/ IsPendingKey(i)
    /\ \A i \in 1..Len(ds) :
          ds[i].t \in {"Null", "Bool", "Number"} => i = Len(ds)

\* A string on top as an element of a list that is the value of a field:
\* Object, key, List, String.
C16_Witness ==
    /\ Len(ds) = 4
    /\ ds[1].t = "Object"
    /\ IsPendingKey(2)
    /\ ds[3].t = "List"
    /\ IsTerminal(ds[4])

(***************************************************************************)
(* C17: the escape buffer holds hex digits only, at most 8 of them.  While *)
(* parse runs it is empty outside a string; inside a string and between    *)
(* escapes it is empty or holds the 4 digits of a high surrogate that      *)
(* waits for its pair; after k digits of a \u escape it holds these k      *)
(* digits, after the 4 of a waiting high surrogate if there is one.        *)
(***************************************************************************)
\* es starts with the 4 digits of a high surrogate.
HighSurrogateWaits ==
    /\ Len(es) >= 4
    /\ FromStrRadix16(SubSeq(es, 1, 4)) \in 55296..56319

\* The number of digits read of the \u escape that state is in; -1 in the
\* states that are not inside such an escape.
DigitsRead(st) ==
    CASE st = S_U1 -> 0
      [] st = S_U2 -> 1
      [] st = S_U3 -> 2
      [] st = S_U4 -> 3
      [] OTHER -> -1

C17_EscapeBufferBounded ==
    /\ Len(es) <= 8
    /\ \A i \in 1..Len(es) : IsHexDigit(es[i])
    /\ Running =>
          IF DigitsRead(state) >= 0
          THEN \/ Len(es) = DigitsRead(state)
               \/ Len(es) = 4 + DigitsRead(state) /\ HighSurrogateWaits
          ELSE IF state \in {S_STR, S_ESC}
          THEN es = <<>> \/ (Len(es) = 4 /\ HighSurrogateWaits)
          ELSE es = <<>>

\* Three digits of a low surrogate read after a waiting high surrogate.
C17_Witness ==
    /\ Running
    /\ state = S_U4
    /\ Len(es) = 7

(***************************************************************************)
(* SpecPunct: a stream of arbitrary bytes out of the punctuation of JSON,  *)
(* the quote and a digit, long enough for an object with a field to be     *)
(* read to its end: {"":1}.                                                *)
(***************************************************************************)
\* [ ] { } , : " 1
Punctuation == {91, 93, 123, 125, 44, 58, 34, 49}

MaxPunctLen == 6

FeedPunct(ch) ==
    /\ Running
    /\ ~eof
    /\ Len(consumed) < MaxPunctLen
    /\ ReadByte(ch)
    /\ UNCHANGED <<todo, eof, doc>>

NextPunct ==
    \/ \E ch \in Punctuation : FeedPunct(ch)
    \/ EndOfInput

SpecPunct == Init /\ [][NextPunct]_vars

(***************************************************************************)
(* What the unwraps and the panics of parse_ch, do_action and print_path   *)
(* ask of the stacks.                                                      *)
(***************************************************************************)
\* print_path meets no Terminal but a String directly above an Object.
PathOk(vs) ==
    \A i \in 1..Len(vs) :
        IsTerminal(vs[i]) => (vs[i].t = "String" /\ i > 1 /\ vs[i - 1].t = "Object")

\* pop & append: a value above a List; the path of a Terminal is printed.
PopAppendOk(vs) ==
    /\ Len(vs) >= 2
    /\ vs[Len(vs) - 1].t = "List"
    /\ IsTerminal(Last(vs)) => PathOk(Front(vs))

\* pop pop & setitem: a value above a String key above an Object; the path
\* is printed unless the value is a container that is not empty.
SetItemOk(vs) ==
    /\ Len(vs) >= 3
    /\ vs[Len(vs) - 1].t = "String"
    /\ vs[Len(vs) - 2].t = "Object"
    /\ (IsTerminal(Last(vs)) \/ ContainerText(Last(vs)) # <<>>) => PathOk(Front(vs))

ActionOk(action, vs) ==
    CASE action = 3 -> PopAppendOk(vs)
      [] action = 4 -> SetItemOk(vs)
      [] OTHER -> action \in 0..14

\* The turns of parse_ch on one byte from p on, each checked before it
\* acts: p is p before the action of the turn, r after it.
RECURSIVE ByteOk(_, _, _)
RECURSIVE TurnOk(_, _, _, _, _)
TurnOk(cat, ch, p, r, entry) ==
    /\ ActionOk((entry \div 256) % 128, p.ds)
    /\ (r.err = "" /\ entry % 256 = 255) =>
          /\ r.stack # <<>>
          /\ ByteOk(cat, ch, [r EXCEPT !.stack = Front(r.stack), !.state = Last(r.stack)])

EntryOk(cat, ch, p, q, entry) ==
    TurnOk(cat, ch, q, Acted((entry \div 256) % 128, ch, q), entry)

ByteOk(cat, ch, p) ==
    \/ STATES[p.state][cat] = ERR
    \/ EntryOk(cat, ch, p,
               Separated(Pushed(p, (STATES[p.state][cat] \div 256) % 256)),
               STATES[p.state][cat])

(***************************************************************************)
(* C18: no input makes the parser panic.  parse never ends in a panic,     *)
(* and in every state it can be in between two bytes, whatever byte comes  *)
(* next, and at the end of the input: the control stack is not empty       *)
(* whenever the return code is taken, pop & append finds a value above a   *)
(* List, pop pop & setitem finds a value above a String key above an       *)
(* Object, and print_path meets no Terminal but a String key directly      *)
(* above an Object.                                                        *)
(***************************************************************************)
C18_NoPanic ==
    /\ result.kind # "panic"
    /\ Running =>
          /\ \A ch \in Punctuation \cup Alphabet :
                ByteOk(CATCODE[Min(ch, 126)], ch, Locals)
          /\ ByteOk(CATCODE[32], 63, Locals)

\* An object with a field read to its end: pop pop & setitem has bound the
\* field and printed its path.
C18_Witness ==
    /\ Running
    /\ consumed = <<123, 34, 34, 58, 49, 125>>
    /\ out # <<>>

(***************************************************************************)
(* C19: the end of the input is read as one more space that leaves the     *)
(* position alone.  When the input s has ended, parse has returned Ok      *)
(* exactly if parse returns Ok on s followed by a space, and then with the *)
(* same output; the pass for the end of the input leaves line and column   *)
(* as they were; an input of whitespace only, the empty one included, is   *)
(* accepted and writes nothing.                                            *)
(***************************************************************************)
IsWhitespace(b) == b \in {32, 9, 10, 13}

C19_EndOfInputIsWhitespace ==
    /\ eof =>
          /\ Accepted <=> Parse(consumed \o <<32>>).kind = "Ok"
          /\ Accepted => out = Parse(consumed \o <<32>>).out
          /\ (\A i \in 1..Len(consumed) : IsWhitespace(consumed[i]))
                => (Accepted /\ out = <<>>)
    /\ Running =>
          /\ EndPass(Locals).line = line
          /\ EndPass(Locals).col = col

\* The input [1] has ended and was accepted.
C19_Witness ==
    /\ eof
    /\ Accepted
    /\ consumed = <<91, 49, 93>>

====
